---- MODULE Spec2Model ----
(***************************************************************************)
(* A model of microstructure_ve.py: the interphase classifier, the mesh    *)
(* and node-set builders, the periodic boundary condition, the             *)
(* viscoelastic frequency transform and the order-fixed serialisation of   *)
(* a Simulation into an input deck.                                        *)
(*                                                                         *)
(* Three specifications share the variables:                               *)
(*   SpecIntph  assign_intph / periodic_assign_intph on bounded images     *)
(*   SpecVE     ViscoelasticMaterial.apply_shift / to_inp on bounded tables*)
(*   Spec       construction and serialisation of a whole Simulation       *)
(***************************************************************************)
EXTENDS Integers, Sequences, FiniteSets, TLC

VARIABLES
    microstructure,   \* classifier input: [shape |-> <<H, W>>, px |-> pixel function]
    num_layers_list,  \* classifier input: sequence of thicknesses
    intph_call,       \* which classifier ran: "none" | "assign_intph" | "periodic_assign_intph"
    intph_img,        \* the image the classifier returned
    matl,             \* a ViscoelasticMaterial (SpecVE)
    ve_call,          \* "none" | "apply_shift" | "to_inp"
    ve_ret,           \* what apply_shift returned
    ve_rows,          \* the table rows ViscoelasticMaterial.to_inp wrote
    inputs,           \* Spec: the arguments the Simulation is built from
    sim,              \* Spec: the constructed Simulation (entities and their fields)
    pc,               \* Spec: position inside Simulation.to_inp
    constructed,      \* Spec: the Simulation as the constructors left it (never written again)
    out,              \* Spec: sections written to the file being written
    files             \* Spec: the files completed by earlier to_inp calls

intphVars == <<microstructure, num_layers_list, intph_call, intph_img>>
veVars == <<matl, ve_call, ve_ret, ve_rows>>
simVars == <<inputs, sim, constructed, pc, out, files>>
vars == <<microstructure, num_layers_list, intph_call, intph_img,
          matl, ve_call, ve_ret, ve_rows, inputs, sim, constructed, pc, out, files>>

\* The value a variable holds in a specification that does not use it.
Unused == "unused"

Min(S) == CHOOSE x \in S : \A y \in S : x <= y
Abs(x) == IF x < 0 THEN -x ELSE x
Range(s) == {s[i] : i \in DOMAIN s}

(***************************************************************************)
(* Images: 0-based (row, col) pixel grids, as numpy arrays of shape (H, W).*)
(***************************************************************************)
Pixels(shape) == (0 .. shape[1] - 1) \X (0 .. shape[2] - 1)

\* np.tile(a, (3, 3)): a new 3H x 3W array.  ("@@ <<>>" leaves the function as it
\* is: it makes TLC build the array once, as np.tile does, instead of evaluating a
\* pixel on every read.)
tile3x3(a) ==
    LET H == a.shape[1]
        W == a.shape[2]
    IN  [shape |-> <<3 * H, 3 * W>>,
         px |-> [p \in Pixels(<<3 * H, 3 * W>>) |-> a.px[<<p[1] % H, p[2] % W>>]]
                    @@ <<>>]

(***************************************************************************)
(* scipy.ndimage.distance_transform_edt: for every pixel the Euclidean     *)
(* distance to the nearest zero pixel.  The model keeps the SQUARE of the  *)
(* distance, an exact integer; "dist > t" for an integer t >= 0 is then    *)
(* "dist^2 > t^2" and "dist != 0" is "dist^2 # 0".                         *)
(***************************************************************************)
SqDist(p, q) == (p[1] - q[1]) * (p[1] - q[1]) + (p[2] - q[2]) * (p[2] - q[2])

distance_transform_edt(a) ==
    LET zeros == {q \in Pixels(a.shape) : a.px[q] = 0}
    IN  [p \in Pixels(a.shape) |-> Min({SqDist(p, q) : q \in zeros})]

\* intph_img is a uint8 array: "+=" wraps modulo 2^8.
UInt8Mod == 256

\* sorted(num_layers_list)
sorted(l) == SortSeq(l, LAMBDA x, y : x < y)

\* (dists != 0).view("u1"): 1 off the filler, 0 on it.
IntphBaseNoFiller(d2) == 1
IntphBase(d2) == IF d2 # 0 THEN 1 ELSE 0

\* for num_layers in sorted(num_layers_list): intph_img += dists > num_layers
\* The array operations are elementwise: v is one pixel of intph_img and d2 the
\* same pixel of dists, after the first i-1 thresholds.
RECURSIVE AddLayers(_, _, _, _)
AddLayers(v, d2, layers, i) ==
    IF i > Len(layers) THEN v
    ELSE AddLayers((v + (IF d2 > layers[i] * layers[i] THEN 1 ELSE 0)) % UInt8Mod,
                   d2, layers, i + 1)

assign_intph(a, layers) ==
    LET dists == distance_transform_edt(a)
        order == sorted(layers)
    IN  [shape |-> a.shape,
         px |-> [p \in Pixels(a.shape) |->
                    AddLayers(IntphBase(dists[p]), dists[p], order, 1)]]

\* The classifier run on the image itself, with no tiling.
periodic_assign_intph_untiled(a, layers) == assign_intph(a, layers)
periodic_assign_intph(a, layers) ==
    LET tiled == tile3x3(a)
        dimx == a.shape[1]
        dimy == a.shape[2]
        intph_tiled == assign_intph(tiled, layers)
    IN  \* intph_tiled[dimx : dimx + dimx, dimy : dimy + dimy].copy()
        [shape |-> <<dimx, dimy>>,
         px |-> [p \in Pixels(<<dimx, dimy>>) |->
                    intph_tiled.px[<<p[1] + dimx, p[2] + dimy>>]]]

(***************************************************************************)
(* Bounds of the classifier's inputs.                                      *)
(***************************************************************************)
MaxPixels == 6   \* images have at most this many pixels
MaxLayers == 2   \* thickness lists have at most this many entries
MaxThick == 2    \* thicknesses are 1 .. MaxThick

Shapes == {s \in (1 .. MaxPixels) \X (1 .. MaxPixels) : s[1] * s[2] <= MaxPixels}
\* Images with at least one filler (zero) pixel: assign_intph's stated precondition.
Images ==
    UNION {{[shape |-> s, px |-> f] :
               f \in {g \in [Pixels(s) -> {0, 1}] : \E p \in Pixels(s) : g[p] = 0}} :
           s \in Shapes}
LayerLists == UNION {[1 .. n -> 1 .. MaxThick] : n \in 0 .. MaxLayers}

InitIntph ==
    /\ microstructure \in Images
    /\ num_layers_list \in LayerLists
    /\ intph_call = "none"
    /\ intph_img = Unused
    /\ matl = Unused /\ ve_call = Unused /\ ve_ret = Unused /\ ve_rows = Unused
    /\ inputs = Unused /\ sim = Unused /\ constructed = Unused
    /\ pc = Unused /\ out = Unused /\ files = Unused

AssignIntph ==
    /\ intph_call = "none"
    /\ intph_img' = assign_intph(microstructure, num_layers_list)
    /\ intph_call' = "assign_intph"
    /\ UNCHANGED <<microstructure, num_layers_list, veVars, simVars>>

PeriodicAssignIntph ==
    /\ intph_call = "none"
    /\ intph_img' = periodic_assign_intph(microstructure, num_layers_list)
    /\ intph_call' = "periodic_assign_intph"
    /\ UNCHANGED <<microstructure, num_layers_list, veVars, simVars>>

NextIntph == AssignIntph \/ PeriodicAssignIntph
SpecIntph == InitIntph /\ [][NextIntph]_vars

(***************************************************************************)
(* Keyword classes.  What a to_inp method writes is a sequence of sections *)
(* [kw, name, data]: the keyword line, the name it carries ("" when none)  *)
(* and the data lines below it.                                            *)
(***************************************************************************)
Section(kw, name, data) == [kw |-> kw, name |-> name, data |-> data]

RECURSIVE Concat(_)
Concat(ss) == IF ss = <<>> THEN <<>> ELSE Head(ss) \o Concat(Tail(ss))

(***************************************************************************)
(* Floating-point values of the frequency transform.                       *)
(*                                                                         *)
(* A frequency is 0, a power of ten n/d (n = 1 or d = 1), inf or nan; its  *)
(* log10 is an integer, -inf, +inf or nan.  The arithmetic follows IEEE    *)
(* 754 on the infinities and nan; finite values are exact.                 *)
(***************************************************************************)
Freq(n, d) == [k |-> "fin", n |-> n, d |-> d]
FreqInf == [k |-> "inf", n |-> 0, d |-> 1]
FreqNaN == [k |-> "nan", n |-> 0, d |-> 1]

Log(v) == [k |-> "fin", v |-> v]
LogNegInf == [k |-> "ninf", v |-> 0]
LogPosInf == [k |-> "pinf", v |-> 0]
LogNaN == [k |-> "nan", v |-> 0]

RECURSIVE Pow10Int(_)
Pow10Int(e) == IF e = 0 THEN 1 ELSE 10 * Pow10Int(e - 1)

RECURSIVE Log10Int(_)
Log10Int(n) == IF n < 10 THEN 0 ELSE 1 + Log10Int(n \div 10)

\* np.log10 (log10(0) = -inf)
log10(x) ==
    CASE x.k = "nan" -> LogNaN
      [] x.k = "inf" -> LogPosInf
      [] x.k = "fin" /\ x.n = 0 -> LogNegInf
      [] OTHER -> Log(Log10Int(x.n) - Log10Int(x.d))

\* 10 ** x
pow10(x) ==
    CASE x.k = "nan" -> FreqNaN
      [] x.k = "pinf" -> FreqInf
      [] x.k = "ninf" -> Freq(0, 1)
      [] x.v >= 0 -> Freq(Pow10Int(x.v), 1)
      [] OTHER -> Freq(1, Pow10Int(-x.v))

LogNeg(a) ==
    CASE a.k = "fin" -> Log(-a.v)
      [] a.k = "ninf" -> LogPosInf
      [] a.k = "pinf" -> LogNegInf
      [] OTHER -> LogNaN

LogAdd(a, b) ==
    CASE a.k = "nan" \/ b.k = "nan" -> LogNaN
      [] a.k = "fin" /\ b.k = "fin" -> Log(a.v + b.v)
      [] a.k = "fin" -> b
      [] b.k = "fin" -> a
      [] a.k = b.k -> a
      [] OTHER -> LogNaN      \* inf + -inf

LogSub(a, b) == LogAdd(a, LogNeg(b))

\* c * a for a finite factor c
LogScale(c, a) ==
    CASE a.k = "nan" -> LogNaN
      [] a.k = "fin" -> Log(c * a.v)
      [] c = 0 -> LogNaN      \* 0 * inf
      [] c > 0 -> a
      [] OTHER -> LogNeg(a)

\* a < b on frequencies (every comparison with nan is false)
FreqLess(a, b) ==
    CASE a.k = "nan" \/ b.k = "nan" -> FALSE
      [] a.k = "inf" -> FALSE
      [] b.k = "inf" -> TRUE
      [] OTHER -> a.n * b.d < b.n * a.d

StrictlyAscending(fs) == \A j \in 1 .. Len(fs) - 1 : FreqLess(fs[j], fs[j + 1])

(***************************************************************************)
(* ViscoelasticMaterial.  A complex modulus is <<real, imag>>; sequences   *)
(* are 1-based, so numpy index i is position i + 1.                        *)
(***************************************************************************)
\* np.argmax(youngs_cplx.imag / youngs_cplx.real): the first position of the
\* largest loss tangent (real parts are positive; ratios compared exactly).
argmax_tand(youngs_cplx) ==
    CHOOSE i \in DOMAIN youngs_cplx :
        /\ \A j \in DOMAIN youngs_cplx :
               youngs_cplx[j][2] * youngs_cplx[i][1] <= youngs_cplx[i][2] * youngs_cplx[j][1]
        /\ \A j \in 1 .. i - 1 :
               youngs_cplx[j][2] * youngs_cplx[i][1] < youngs_cplx[i][2] * youngs_cplx[j][1]

\* broadening * (freq - f) + f
BroadenReversed(broadening, x, f) == LogAdd(LogScale(broadening, LogSub(f, x)), f)
Broaden(broadening, x, f) == LogAdd(LogScale(broadening, LogSub(x, f)), f)

\* The shifted frequencies apply_shift returns.
ShiftedFreq(m) ==
    LET freq == [j \in DOMAIN m.freq |-> LogSub(log10(m.freq[j]), Log(m.shift))]
        i == argmax_tand(m.youngs_cplx)
        f == freq[i]
    IN  [j \in DOMAIN m.freq |->
            pow10(IF j < i THEN Broaden(m.left_broadening, freq[j], f)
                  ELSE Broaden(m.right_broadening, freq[j], f))]

\* apply_shift: what it returns and the material it leaves behind.  np.log10
\* allocates a new array, so the slice assignments never touch self.freq.
apply_shift_in_place(m) == [ret |-> ShiftedFreq(m), self |-> [m EXCEPT !.freq = ShiftedFreq(m)]]
apply_shift(m) == [ret |-> ShiftedFreq(m), self |-> m]

\* ElementSet.to_inp
ElementSet_to_inp(elset) ==
    <<Section("*Elset", ToString(elset.matl_code), elset.elements)>>

\* Material.to_inp: the element set, then the section, then the material block.
Material_to_inp(m) ==
    ElementSet_to_inp(m.elset)
    \o <<Section("*Solid Section", ToString(m.elset.matl_code), <<1>>),
         Section("*Material", ToString(m.elset.matl_code),
                 <<m.density, m.youngs, m.poisson>>)>>

\* ViscoelasticMaterial.to_inp: Material.to_inp, then the table, one row per
\* sample: (imag/E_inf, 1 - real/E_inf) twice, then the shifted frequency.
\* A quotient a/b is kept as <<a, b>>.
ViscoelasticMaterial_to_inp(m) ==
    LET youngs_inf == m.youngs_cplx[1][1]
        real == [j \in DOMAIN m.youngs_cplx |-> <<m.youngs_cplx[j][2], youngs_inf>>]
        imag == [j \in DOMAIN m.youngs_cplx |->
                    <<youngs_inf - m.youngs_cplx[j][1], youngs_inf>>]
        shifted == apply_shift(m)
        n == Min({Len(real), Len(imag), Len(shifted.ret)})
    IN  [text |-> Material_to_inp(m)
                  \o <<Section("*Viscoelastic", ToString(m.elset.matl_code),
                                [j \in 1 .. n |->
                                    <<real[j], imag[j], real[j], imag[j], shifted.ret[j]>>])>>,
         self |-> shifted.self]

(***************************************************************************)
(* Bounds of the frequency transform's inputs.                             *)
(***************************************************************************)
MaxSamples == 3   \* a table has at most this many samples
FreqValues == {Freq(0, 1), Freq(1, 1), Freq(10, 1), Freq(100, 1)}
YoungsValues == {<<10, 1>>, <<10, 5>>}
Shifts == {0, 1}
Broadenings == {-1, 0, 1, 2}

\* load_viscoelasticity sorts by frequency: tables are ascending; the ones drawn
\* here are strictly ascending.
FreqTables ==
    UNION {{t \in [1 .. n -> FreqValues] : StrictlyAscending(t)} : n \in 1 .. MaxSamples}

VEMaterials ==
    UNION {{[class |-> "ViscoelasticMaterial",
             elset |-> [matl_code |-> 1, elements |-> <<1>>],
             density |-> 1, poisson |-> 0, youngs |-> y[1][1],
             freq |-> t, youngs_cplx |-> y, shift |-> sh,
             left_broadening |-> lb, right_broadening |-> rb] :
               y \in [DOMAIN t -> YoungsValues], sh \in Shifts,
               lb \in Broadenings, rb \in Broadenings} :
           t \in FreqTables}

InitVE ==
    /\ matl \in VEMaterials
    /\ ve_call = "none"
    /\ ve_ret = <<>>
    /\ ve_rows = <<>>
    /\ microstructure = Unused /\ num_layers_list = Unused
    /\ intph_call = Unused /\ intph_img = Unused
    /\ inputs = Unused /\ sim = Unused /\ constructed = Unused
    /\ pc = Unused /\ out = Unused /\ files = Unused

ApplyShift ==
    /\ ve_call = "none"
    /\ ve_ret' = apply_shift(matl).ret
    /\ matl' = apply_shift(matl).self
    /\ ve_call' = "apply_shift"
    /\ UNCHANGED <<ve_rows, intphVars, simVars>>

ViscoelasticToInp ==
    /\ ve_call = "none"
    /\ ve_rows' = ViscoelasticMaterial_to_inp(matl).text
    /\ matl' = ViscoelasticMaterial_to_inp(matl).self
    /\ ve_call' = "to_inp"
    /\ UNCHANGED <<ve_ret, intphVars, simVars>>

NextVE == ApplyShift \/ ViscoelasticToInp
SpecVE == InitVE /\ [][NextVE]_vars

\* f"{x:.6e}" of a non-negative whole number: rounded half-to-even to seven
\* significant digits (the value the text denotes).
RECURSIVE Fmt6e(_)
Fmt6e(v) ==
    IF v < 10000000 THEN v
    ELSE LET q == v \div 10
             r == v % 10
             up == r > 5 \/ (r = 5 /\ q % 2 = 1)
         IN  10 * Fmt6e(IF up THEN q + 1 ELSE q)

\* Heading.to_inp
Heading_to_inp(h) == <<Section("*Heading", "", <<h.text>>)>>

\* np.ravel_multi_index((row, col), shape)
ravel_multi_index(row, col, shape) == row * shape[2] + col

\* GridNodes(shape, scale).__post_init__; from_intph_img gives shape = image shape + 1
GridNodesVirtualIsLast(shape, scale) ==
    [shape |-> shape, scale |-> scale,
     node_nums |-> [k \in 1 .. shape[1] * shape[2] |-> k],
     virtual_node |-> shape[1] * shape[2]]
GridNodes(shape, scale) ==
    [shape |-> shape, scale |-> scale,
     node_nums |-> [k \in 1 .. shape[1] * shape[2] |-> k],
     virtual_node |-> shape[1] * shape[2] + 1]

GridNodes_from_intph_img(img, scale) ==
    GridNodes(<<img.shape[1] + 1, img.shape[2] + 1>>, scale)

\* A node line: the node number, then x, then y.
NodeLineYFirst(node_num, x, y) == <<node_num, Fmt6e(y), Fmt6e(x)>>
NodeLine(node_num, x, y) == <<node_num, Fmt6e(x), Fmt6e(y)>>

\* GridNodes.to_inp: y_pos, x_pos = scale * np.indices(shape), ravelled row-major
\* and zipped with node_nums; then the virtual node at the last x, y.
GridNodes_to_inp(nodes) ==
    LET cols == nodes.shape[2]
        n == Len(nodes.node_nums)
        x_pos == [k \in 1 .. n |-> nodes.scale * ((k - 1) % cols)]
        y_pos == [k \in 1 .. n |-> nodes.scale * ((k - 1) \div cols)]
    IN  <<Section("*Node", "",
                  [k \in 1 .. n |-> NodeLine(nodes.node_nums[k], x_pos[k], y_pos[k])]
                  \o <<NodeLine(nodes.virtual_node, x_pos[n], y_pos[n])>>)>>

\* RectangularElements(nodes).__post_init__
RectangularElements(nodes) ==
    [nodes |-> nodes, type |-> "CPE4R",
     element_nums |-> [k \in 1 .. (nodes.shape[1] - 1) * (nodes.shape[2] - 1) |-> k]]

\* The order in which an element line lists the four corner nodes.
ElementLineKeyFirst(elem_num, tn, kn, rn, trn) == <<elem_num, kn, tn, trn, rn>>
ElementLine(elem_num, tn, kn, rn, trn) == <<elem_num, tn, kn, rn, trn>>

\* RectangularElements.to_inp: slices of all_nodes, ravelled row-major and zipped
\* with element_nums.
RectangularElements_to_inp(elements) ==
    LET shape == elements.nodes.shape
        ecols == shape[2] - 1
        all_nodes(r, c) == 1 + ravel_multi_index(r, c, shape)
        row(k) == (k - 1) \div ecols
        col(k) == (k - 1) % ecols
        right_nodes(k) == all_nodes(row(k), col(k) + 1)         \* all_nodes[:-1, 1:]
        key_nodes(k) == all_nodes(row(k), col(k))               \* all_nodes[:-1, :-1]
        top_nodes(k) == all_nodes(row(k) + 1, col(k))           \* all_nodes[1:, :-1]
        topright_nodes(k) == all_nodes(row(k) + 1, col(k) + 1)  \* all_nodes[1:, 1:]
        n == Min({Len(elements.element_nums), (shape[1] - 1) * ecols})
    IN  <<Section("*Element", elements.type,
                  [k \in 1 .. n |->
                      ElementLine(elements.element_nums[k], top_nodes(k), key_nodes(k),
                                  right_nodes(k), topright_nodes(k))])>>

\* An index expression on one axis: ":" (all), "1:-1" (interior) or one index,
\* negative counting from the end.  The indices it selects, in order.
SliceAll == [kind |-> "all", at |-> 0]
SliceInterior == [kind |-> "interior", at |-> 0]
SliceAt(i) == [kind |-> "at", at |-> i]

AxisIndices(sl, n) ==
    CASE sl.kind = "all" -> [k \in 1 .. n |-> k - 1]
      [] sl.kind = "interior" -> [k \in 1 .. n - 2 |-> k]
      [] OTHER -> <<IF sl.at < 0 THEN n + sl.at ELSE sl.at>>

\* "top" is image rather than matrix convention
SideNames == <<"LeftSurface", "RightSurface", "BotmSurface", "TopSurface",
               "BotmLeft", "TopLeft", "BotmRight", "TopRight">>
sidesWithCorners(name) ==
    CASE name = "LeftSurface" -> <<SliceAll, SliceAt(0)>>
      [] name = "RightSurface" -> <<SliceAll, SliceAt(-1)>>
      [] name = "BotmSurface" -> <<SliceAt(0), SliceAll>>
      [] name = "TopSurface" -> <<SliceAt(-1), SliceAll>>
      [] name = "BotmLeft" -> <<SliceAt(0), SliceAt(0)>>
      [] name = "TopLeft" -> <<SliceAt(-1), SliceAt(0)>>
      [] name = "BotmRight" -> <<SliceAt(0), SliceAt(-1)>>
      [] name = "TopRight" -> <<SliceAt(-1), SliceAt(-1)>>
sides(name) ==
    CASE name = "LeftSurface" -> <<SliceAll, SliceAt(0)>>
      [] name = "RightSurface" -> <<SliceAll, SliceAt(-1)>>
      [] name = "BotmSurface" -> <<SliceAt(0), SliceInterior>>
      [] name = "TopSurface" -> <<SliceAt(-1), SliceInterior>>
      [] name = "BotmLeft" -> <<SliceAt(0), SliceAt(0)>>
      [] name = "TopLeft" -> <<SliceAt(-1), SliceAt(0)>>
      [] name = "BotmRight" -> <<SliceAt(0), SliceAt(-1)>>
      [] name = "TopRight" -> <<SliceAt(-1), SliceAt(-1)>>

\* NodeSet.from_side_name: the node ids of the slice, in raster order.  id is the
\* identity of the new object (NodeSet is eq=False: sets compare by identity).
NodeSet_from_side_name(name, nodes, id) ==
    LET sl == sides(name)
        rows == AxisIndices(sl[1], nodes.shape[1])
        cols == AxisIndices(sl[2], nodes.shape[2])
    IN  [id |-> id, name |-> name,
         node_inds |-> [k \in 1 .. Len(rows) * Len(cols) |->
                           1 + ravel_multi_index(rows[1 + ((k - 1) \div Len(cols))],
                                                 cols[1 + ((k - 1) % Len(cols))],
                                                 nodes.shape)]]

\* NodeSet.to_inp
NodeSet_to_inp(nset) == <<Section("*Nset", nset.name, nset.node_inds)>>

\* EqualityEquation.to_inp / DriveEquation.to_inp: the number of terms, then one
\* line per term (str(NodeSet) is its name).
Equation_to_inp(eq) ==
    <<Section("*Equation", ToString(eq.dof),
              IF eq.class = "DriveEquation"
              THEN <<3, <<eq.nsets[1].name, eq.dof, 1>>, <<eq.nsets[2].name, eq.dof, -1>>,
                         <<eq.drive_node, eq.dof, 1>>>>
              ELSE <<2, <<eq.nsets[1].name, eq.dof, 1>>, <<eq.nsets[2].name, eq.dof, -1>>>>)>>

\* ElementSet.from_intph_image: one set per pixel value, in ascending order.
RECURSIVE SetToSortedSeq(_)
SetToSortedSeq(S) == IF S = {} THEN <<>> ELSE <<Min(S)>> \o SetToSortedSeq(S \ {Min(S)})

ElementSet_from_intph_image(img) ==
    LET cols == img.shape[2]
        size == img.shape[1] * cols
        flat == [k \in 1 .. size |-> img.px[<<(k - 1) \div cols, (k - 1) % cols>>]]
        uniq == SetToSortedSeq(Range(flat))
    IN  [u \in DOMAIN uniq |->
            [matl_code |-> uniq[u],
             elements |-> SetToSortedSeq({k \in 1 .. size : flat[k] = uniq[u]})]]

(***************************************************************************)
(* Combo classes.                                                          *)
(***************************************************************************)
\* DisplacementBoundaryCondition(nset, first_dof, last_dof, displacement); nset is
\* a node number here (it may also be a NodeSet, written by name).
DisplacementBoundaryCondition(nset, first_dof, last_dof, displacement) ==
    [class |-> "DisplacementBoundaryCondition", nset |-> nset,
     first_dof |-> first_dof, last_dof |-> last_dof, displacement |-> displacement]

\* DisplacementBoundaryCondition.to_inp
DisplacementBoundaryCondition_to_inp(bc) ==
    <<Section("*Boundary", "", <<bc.nset, bc.first_dof, bc.last_dof, bc.displacement>>)>>

EqualityEquation(nsets, dof) ==
    [class |-> "EqualityEquation", nsets |-> nsets, dof |-> dof]
DriveEquation(nsets, dof, drive_node) ==
    [class |-> "DriveEquation", nsets |-> nsets, dof |-> dof, drive_node |-> drive_node]

\* "self.driven_nset not in p", negated: NodeSet is eq=False, so membership is by
\* object identity.
NodeSetIn(nset, p) == \E j \in DOMAIN p : p[j].id = nset.id

\* x in range(self.first_dof - 1, self.last_dof)
DofDrivenFromFirst(x, first_dof, last_dof) == first_dof <= x /\ x < last_dof
DofDriven(x, first_dof, last_dof) == first_dof - 1 <= x /\ x < last_dof

\* PeriodicBoundaryCondition.__post_init__; the six node sets it makes are new
\* objects, with identities id0, id0 + 1, ...
PeriodicBoundaryCondition(nset, first_dof, last_dof, displacement, nodes, id0) ==
    LET make_set(name, k) == NodeSet_from_side_name(name, nodes, id0 + k)
        ndim == Len(nodes.shape)
        driven_nset == make_set("RightSurface", 0)
        node_pairs == <<<<make_set("LeftSurface", 1), driven_nset>>,
                        <<make_set("BotmSurface", 2), make_set("TopSurface", 3)>>,
                        <<make_set("BotmRight", 4), make_set("TopRight", 5)>>>>
        eq_pairs ==
            [p \in DOMAIN node_pairs |->
                IF ~NodeSetIn(driven_nset, node_pairs[p])
                THEN [x \in 1 .. ndim |-> EqualityEquation(node_pairs[p], (x - 1) + 1)]
                ELSE [x \in 1 .. ndim |->
                         IF DofDriven(x - 1, first_dof, last_dof)
                         THEN DriveEquation(node_pairs[p], (x - 1) + 1, nset)
                         ELSE EqualityEquation(node_pairs[p], (x - 1) + 1)]]
    IN  [class |-> "PeriodicBoundaryCondition", nset |-> nset,
         first_dof |-> first_dof, last_dof |-> last_dof, displacement |-> displacement,
         nodes |-> nodes, driven_nset |-> driven_nset,
         node_pairs |-> node_pairs, eq_pairs |-> eq_pairs]

\* The sections one pair writes: its two node sets, then its two equations.
PairSections(node_pair, eq_pair) ==
    NodeSet_to_inp(node_pair[1]) \o NodeSet_to_inp(node_pair[2])
    \o Equation_to_inp(eq_pair[1]) \o Equation_to_inp(eq_pair[2])

\* PeriodicBoundaryCondition.to_inp: every pair, then the displacement condition.
PeriodicBoundaryCondition_to_inp(bc) ==
    Concat([p \in 1 .. Min({Len(bc.node_pairs), Len(bc.eq_pairs)}) |->
               PairSections(bc.node_pairs[p], bc.eq_pairs[p])])
    \o DisplacementBoundaryCondition_to_inp(bc)

\* bc.to_inp, dispatched on the class
BoundaryCondition_to_inp(bc) ==
    IF bc.class = "PeriodicBoundaryCondition"
    THEN PeriodicBoundaryCondition_to_inp(bc)
    ELSE DisplacementBoundaryCondition_to_inp(bc)

\* m.to_inp, dispatched on the class: the text and the material left behind
AnyMaterial_to_inp(m) ==
    IF m.class = "ViscoelasticMaterial"
    THEN ViscoelasticMaterial_to_inp(m)
    ELSE [text |-> Material_to_inp(m), self |-> m]

\* Static.to_inp / Dynamic.to_inp
Subsection_to_inp(x) ==
    IF x.class = "Static"
    THEN <<Section("*STATIC", IF x.long_term THEN "LONG TERM" ELSE "", <<>>)>>
    ELSE <<Section("*STEADY STATE DYNAMICS", "DIRECT",
                   <<x.f_initial, x.f_final, x.f_count, x.bias>>)>>

\* Step.to_inp
Step_to_inp(st) ==
    <<Section("*STEP", IF st.perturbation THEN "PERTURBATION" ELSE "", <<>>)>>
    \o Concat([j \in DOMAIN st.subsections |-> Subsection_to_inp(st.subsections[j])])
    \o <<Section("*END STEP", "", <<>>)>>

\* The order of Model.to_inp's parts, and of Simulation.to_inp's around them.
ModelStagesElementsFirst == <<"nodes", "elements", "nsets", "materials", "bcs">>
ModelStages == <<"nodes", "nsets", "elements", "materials", "bcs">>
SimulationStages == <<"heading">> \o ModelStages \o <<"steps">>

\* How many to_inp calls a stage makes ("if self.heading is not None", the loops).
StageItems(s, stage) ==
    CASE stage = "heading" -> Len(s.heading)
      [] stage = "nodes" -> 1
      [] stage = "nsets" -> Len(s.model.nsets)
      [] stage = "elements" -> 1
      [] stage = "materials" -> Len(s.model.materials)
      [] stage = "bcs" -> Len(s.model.bcs)
      [] stage = "steps" -> Len(s.steps)

\* The next to_inp call at or after item i of stage k; stage Len + 1 is the return.
RECURSIVE Seek(_, _, _)
Seek(s, k, i) ==
    IF k > Len(SimulationStages) THEN [state |-> "writing", stage |-> k, item |-> 0]
    ELSE IF i <= StageItems(s, SimulationStages[k])
         THEN [state |-> "writing", stage |-> k, item |-> i]
         ELSE Seek(s, k + 1, 1)

(***************************************************************************)
(* Building a Simulation the way the module is used: an image with one     *)
(* filler pixel at (0, 0) is classified with one interphase layer, meshed, *)
(* given one material per phase (the filler elastic, the others            *)
(* viscoelastic), the eight named node sets, boundary conditions and steps.*)
(* An Optional field is a sequence of length 0 (None) or 1.                *)
(***************************************************************************)
MaxSide == 2    \* the image is at most MaxSide x MaxSide pixels
MaxCalls == 2   \* to_inp is called at most this many times on a Simulation
Scales == {1, 2}
DofValues == 0 .. 3

SimInputs ==
    [shape : (1 .. MaxSide) \X (1 .. MaxSide),
     scale : Scales,
     heading : {<<>>, <<[text |-> "rve"]>>},
     first_dof : DofValues,
     last_dof : DofValues,
     bcs : {<<"periodic">>, <<"displacement", "periodic">>},
     steps : {<<>>,
              <<[subsections |-> <<[class |-> "Static", long_term |-> TRUE]>>,
                 perturbation |-> FALSE],
                [subsections |-> <<[class |-> "Dynamic", f_initial |-> 1, f_final |-> 100,
                                    f_count |-> 3, bias |-> 1]>>,
                 perturbation |-> TRUE]>>}]

BuildSimulation(in) ==
    LET image == [shape |-> in.shape,
                  px |-> [p \in Pixels(in.shape) |-> IF p = <<0, 0>> THEN 0 ELSE 1]]
        intph == assign_intph(image, <<1>>)
        nodes == GridNodes_from_intph_img(intph, in.scale)
        elsets == ElementSet_from_intph_image(intph)
        materials ==
            [u \in DOMAIN elsets |->
                IF elsets[u].matl_code = 0
                THEN [class |-> "Material", elset |-> elsets[u],
                      density |-> 2, poisson |-> 0, youngs |-> 100]
                ELSE [class |-> "ViscoelasticMaterial", elset |-> elsets[u],
                      density |-> 1, poisson |-> 0, youngs |-> 10,
                      freq |-> <<Freq(1, 1), Freq(10, 1), Freq(100, 1)>>,
                      youngs_cplx |-> <<<<10, 1>>, <<20, 10>>, <<40, 4>>>>,
                      shift |-> 1, left_broadening |-> 2, right_broadening |-> 1]]
        nsets == [k \in DOMAIN SideNames |-> NodeSet_from_side_name(SideNames[k], nodes, k)]
        bcs == [j \in DOMAIN in.bcs |->
                   IF in.bcs[j] = "periodic"
                   THEN PeriodicBoundaryCondition(nodes.virtual_node, in.first_dof,
                                                  in.last_dof, 1, nodes,
                                                  Len(SideNames) + 6 * j)
                   ELSE DisplacementBoundaryCondition(1, 1, 2, 0)]
    IN  [heading |-> in.heading,
         model |-> [nodes |-> nodes, elements |-> RectangularElements(nodes),
                    materials |-> materials, bcs |-> bcs, nsets |-> nsets],
         steps |-> in.steps]

New == [state |-> "new", stage |-> 0, item |-> 0]
Ready == [state |-> "ready", stage |-> 0, item |-> 0]

Init ==
    /\ inputs \in SimInputs
    /\ sim = <<>>
    /\ constructed = <<>>
    /\ pc = New
    /\ out = <<>>
    /\ files = <<>>
    /\ microstructure = Unused /\ num_layers_list = Unused
    /\ intph_call = Unused /\ intph_img = Unused
    /\ matl = Unused /\ ve_call = Unused /\ ve_ret = Unused /\ ve_rows = Unused

\* The constructors run.
Construct ==
    /\ pc = New
    /\ sim' = BuildSimulation(inputs)
    /\ constructed' = sim'
    /\ pc' = Ready
    /\ UNCHANGED <<inputs, out, files, intphVars, veVars>>

\* Simulation.to_inp is called with a new, empty file.
CallToInp ==
    /\ pc = Ready
    /\ Len(files) < MaxCalls
    /\ out' = <<>>
    /\ pc' = Seek(sim, 1, 1)
    /\ UNCHANGED <<inputs, sim, constructed, files, intphVars, veVars>>

\* to_inp is at an item of the named stage.
At(stage) ==
    /\ pc.state = "writing"
    /\ pc.stage <= Len(SimulationStages)
    /\ SimulationStages[pc.stage] = stage

\* The item's to_inp wrote text; on to the next item.
Wrote(text) ==
    /\ out' = out \o text
    /\ pc' = Seek(sim, pc.stage, pc.item + 1)
    /\ UNCHANGED <<inputs, constructed, files, intphVars, veVars>>

HeadingToInp ==
    /\ At("heading")
    /\ Wrote(Heading_to_inp(sim.heading[pc.item]))
    /\ UNCHANGED sim

GridNodesToInp ==
    /\ At("nodes")
    /\ Wrote(GridNodes_to_inp(sim.model.nodes))
    /\ UNCHANGED sim

NodeSetToInp ==
    /\ At("nsets")
    /\ Wrote(NodeSet_to_inp(sim.model.nsets[pc.item]))
    /\ UNCHANGED sim

RectangularElementsToInp ==
    /\ At("elements")
    /\ Wrote(RectangularElements_to_inp(sim.model.elements))
    /\ UNCHANGED sim

MaterialToInp ==
    /\ At("materials")
    /\ LET done == AnyMaterial_to_inp(sim.model.materials[pc.item])
       IN  /\ Wrote(done.text)
           /\ sim' = [sim EXCEPT !.model.materials[pc.item] = done.self]

BoundaryConditionToInp ==
    /\ At("bcs")
    /\ Wrote(BoundaryCondition_to_inp(sim.model.bcs[pc.item]))
    /\ UNCHANGED sim

StepToInp ==
    /\ At("steps")
    /\ Wrote(Step_to_inp(sim.steps[pc.item]))
    /\ UNCHANGED sim

\* Simulation.to_inp returns: the file is complete.
ReturnFromToInp ==
    /\ pc.state = "writing"
    /\ pc.stage > Len(SimulationStages)
    /\ files' = Append(files, out)
    /\ out' = <<>>
    /\ pc' = Ready
    /\ UNCHANGED <<inputs, sim, constructed, intphVars, veVars>>

Next ==
    \/ Construct
    \/ CallToInp
    \/ HeadingToInp
    \/ GridNodesToInp
    \/ NodeSetToInp
    \/ RectangularElementsToInp
    \/ MaterialToInp
    \/ BoundaryConditionToInp
    \/ StepToInp
    \/ ReturnFromToInp

Spec == Init /\ [][Next]_vars

(***************************************************************************)
(* Claims about the classifier (checked under SpecIntph).                  *)
(***************************************************************************)
LabelSet(img) == {img.px[p] : p \in Pixels(img.shape)}
NumThick == Len(num_layers_list)

\* C1 (as stated): the labels occurring in assign_intph's output are exactly
\* {0, ..., k}, k the number of thicknesses.
C1_LabelsExactlyZeroToK ==
    intph_call = "assign_intph" => LabelSet(intph_img) = 0 .. NumThick

\* C1 (amended): the labels occurring in assign_intph's output form a subset of
\* {0, ..., k+1} that contains 0, and a pixel is labelled 0 exactly when it is
\* filler: the non-filler base label is 1 and each of the k thresholds can add 1.
C1_LabelsWithinZeroToKPlusOne ==
    intph_call = "assign_intph" =>
        /\ intph_img.shape = microstructure.shape
        /\ LabelSet(intph_img) \subseteq 0 .. NumThick + 1
        /\ 0 \in LabelSet(intph_img)
        /\ \A p \in Pixels(microstructure.shape) :
               intph_img.px[p] = 0 <=> microstructure.px[p] = 0

\* C1 witness: assign_intph ran with k >= 1 thicknesses and label k+1 occurs.
C1_Witness ==
    /\ intph_call = "assign_intph"
    /\ NumThick >= 1
    /\ NumThick + 1 \in LabelSet(intph_img)

\* The wrap-around (toroidal) squared distance between two pixels of an H x W image.
ToroidalSqDist(shape, p, q) ==
    LET dr == Abs(p[1] - q[1])
        dc == Abs(p[2] - q[2])
        wr == IF shape[1] - dr < dr THEN shape[1] - dr ELSE dr
        wc == IF shape[2] - dc < dc THEN shape[2] - dc ELSE dc
    IN  wr * wr + wc * wc

\* assign_intph's rule applied to the exact toroidal distance to the nearest filler:
\* 0 on filler, otherwise 1 + the number of thicknesses strictly below the distance.
ToroidalLabel(a, layers, p) ==
    LET d2 == Min({ToroidalSqDist(a.shape, p, q) :
                      q \in {z \in Pixels(a.shape) : a.px[z] = 0}})
    IN  IF d2 = 0 THEN 0
        ELSE 1 + Cardinality({i \in DOMAIN layers : layers[i] * layers[i] < d2})

\* np.roll(a, (dr, dc), axis=(0, 1)): a cyclic shift of rows and columns.
Roll(a, dr, dc) ==
    [shape |-> a.shape,
     px |-> [p \in Pixels(a.shape) |->
                a.px[<<(p[1] - dr) % a.shape[1], (p[2] - dc) % a.shape[2]>>]]]

\* C10: periodic_assign_intph returns an H x W image whose label at every pixel is
\* the label of the exact toroidal distance to the nearest filler, and it commutes
\* with cyclic shifts of its input: shifting the input by one row or by one column
\* shifts the output likewise (every cyclic shift is a composition of these, and
\* the images checked are closed under them).
C10_PeriodicIsToroidal ==
    intph_call = "periodic_assign_intph" =>
        /\ intph_img.shape = microstructure.shape
        /\ DOMAIN intph_img.px = Pixels(microstructure.shape)
        /\ \A p \in Pixels(microstructure.shape) :
               intph_img.px[p] = ToroidalLabel(microstructure, num_layers_list, p)
        /\ \A d \in {<<1, 0>>, <<0, 1>>} :
               periodic_assign_intph(Roll(microstructure, d[1], d[2]), num_layers_list)
                   = Roll(intph_img, d[1], d[2])

\* C10 witness: the periodic classifier ran on an image where wrap-around matters
\* (its result differs from the non-periodic classifier's).
C10_Witness ==
    /\ intph_call = "periodic_assign_intph"
    /\ intph_img # assign_intph(microstructure, num_layers_list)

(***************************************************************************)
(* Claims about the frequency transform (checked under SpecVE).            *)
(***************************************************************************)
\* The last column of the rows of the *Viscoelastic table that was written.
WrittenFreqColumn ==
    LET table == ve_rows[Len(ve_rows)].data
    IN  [j \in DOMAIN table |-> table[j][5]]

ShiftedOrderKept ==
    /\ ve_call = "apply_shift" =>
           Len(ve_ret) = Len(matl.freq) /\ StrictlyAscending(ve_ret)
    /\ ve_call = "to_inp" =>
           Len(WrittenFreqColumn) = Len(matl.freq) /\ StrictlyAscending(WrittenFreqColumn)

\* C8 (as stated): for every strictly ascending frequency table, every shift and
\* every pair of broadening factors, the frequencies apply_shift returns, and the
\* last column to_inp writes, are strictly ascending.
C8_ShiftKeepsOrder ==
    StrictlyAscending(matl.freq) => ShiftedOrderKept

\* C8 (amended): the same, for tables of positive frequencies and positive
\* broadening factors.
C8_ShiftKeepsOrderWhenPositive ==
    (/\ StrictlyAscending(matl.freq)
     /\ \A j \in DOMAIN matl.freq : FreqLess(Freq(0, 1), matl.freq[j])
     /\ matl.left_broadening > 0
     /\ matl.right_broadening > 0) => ShiftedOrderKept

\* C8 witness: to_inp wrote the table of a three-sample material of positive
\* frequencies whose loss-tangent peak is the middle sample, shifted, with
\* different positive broadening on each side.
C8_Witness ==
    /\ ve_call = "to_inp"
    /\ Len(matl.freq) = 3
    /\ \A j \in DOMAIN matl.freq : FreqLess(Freq(0, 1), matl.freq[j])
    /\ argmax_tand(matl.youngs_cplx) = 2
    /\ matl.shift = 1
    /\ matl.left_broadening = 2
    /\ matl.right_broadening = 1
    /\ WrittenFreqColumn # matl.freq

(***************************************************************************)
(* Claims about the deck (checked under Spec).  The image is ImgH x ImgW   *)
(* pixels, the node grid (ImgH + 1) x (ImgW + 1).                          *)
(***************************************************************************)
ImgH == inputs.shape[1]
ImgW == inputs.shape[2]
Built == pc.state # "new"

\* The positions of the sections with keyword kw in text t.
Where(t, kw) == {j \in DOMAIN t : t[j].kw = kw}
\* The claims about what is written look at the file being written: every
\* completed file was that file, whole, in the state before to_inp returned.
SomeWritten(kw) == Where(out, kw) # {}

\* The number of the grid node at (row, col), and of the element of pixel (row, col).
NodeAt(row, col) == 1 + row * (ImgW + 1) + col
ElementAt(row, col) == 1 + row * ImgW + col

\* The written element sections list, for every pixel, the four nodes in this order.
ElementLinesAre(Corners(_, _)) ==
    \A j \in Where(out, "*Element") :
        \A row \in 0 .. ImgH - 1, col \in 0 .. ImgW - 1 :
            /\ ElementAt(row, col) \in DOMAIN out[j].data
            /\ out[j].data[ElementAt(row, col)] = <<ElementAt(row, col)>> \o Corners(row, col)

\* C3 (as stated): the element line of pixel (row, col) lists the nodes at
\* (row, col), (row+1, col), (row+1, col+1), (row, col+1), in this order.
C3_ElementOrderAsStated ==
    LET Corners(row, col) == <<NodeAt(row, col), NodeAt(row + 1, col),
                               NodeAt(row + 1, col + 1), NodeAt(row, col + 1)>>
    IN  ElementLinesAre(Corners)

\* C3 (amended): the element line of pixel (row, col) lists the nodes at
\* (row+1, col), (row, col), (row, col+1), (row+1, col+1), in this order.
C3_ElementOrderTopKeyRightTopright ==
    LET Corners(row, col) == <<NodeAt(row + 1, col), NodeAt(row, col),
                               NodeAt(row, col + 1), NodeAt(row + 1, col + 1)>>
    IN  ElementLinesAre(Corners)

\* C3 witness: the elements of an image of at least 2 x 2 pixels were written.
C3_Witness == SomeWritten("*Element") /\ ImgH >= 2 /\ ImgW >= 2

\* The written coordinates <<x, y>> of node n in node section ns.
CoordOf(ns, n) ==
    LET line == IF n \in DOMAIN ns.data /\ ns.data[n][1] = n THEN ns.data[n]
                ELSE CHOOSE l \in Range(ns.data) : l[1] = n
    IN  <<line[2], line[3]>>

\* Twice the signed area of the polygon through the points ps, in order.
TwiceSignedArea(ps) ==
    LET nxt(i) == IF i = Len(ps) THEN 1 ELSE i + 1
        term(i) == ps[i][1] * ps[nxt(i)][2] - ps[nxt(i)][1] * ps[i][2]
        sum[i \in 0 .. Len(ps)] == IF i = 0 THEN 0 ELSE sum[i - 1] + term(i)
    IN  sum[Len(ps)]

\* C4: every written element has four pairwise distinct node ids, and the polygon
\* through them in the written order, at the written node coordinates, has
\* positive signed area.
C4_ElementsCounterClockwise ==
    \A j \in Where(out, "*Element") :
        /\ Where(out, "*Node") # {}
        /\ \A i \in Where(out, "*Node") : \A k \in DOMAIN out[j].data :
               LET ids == SubSeq(out[j].data[k], 2, 5)
               IN  /\ Len(out[j].data[k]) = 5
                   /\ Cardinality(Range(ids)) = 4
                   /\ TwiceSignedArea([c \in 1 .. 4 |-> CoordOf(out[i], ids[c])]) > 0

\* C4 witness: nodes and elements were written with a scale other than 1.
C4_Witness ==
    /\ SomeWritten("*Element")
    /\ ImgH >= 2 /\ ImgW >= 2
    /\ inputs.scale > 1

\* C5: the mesh has (H+1)(W+1)+1 nodes and H*W elements: grid nodes are numbered
\* 1..(H+1)(W+1) row-major with node (row, col) at (col*scale, row*scale), the
\* virtual node is numbered (H+1)(W+1)+1 at the last grid node's coordinates, and
\* the elements are numbered 1..H*W.
C5_MeshNumbering ==
    LET N == (ImgH + 1) * (ImgW + 1)
    IN  Built =>
        /\ sim.model.nodes.node_nums = [k \in 1 .. N |-> k]
        /\ sim.model.nodes.virtual_node = N + 1
        /\ sim.model.elements.element_nums = [k \in 1 .. ImgH * ImgW |-> k]
        /\ \A j \in Where(out, "*Node") :
               /\ Len(out[j].data) = N + 1
               /\ \A row \in 0 .. ImgH, col \in 0 .. ImgW :
                      out[j].data[NodeAt(row, col)]
                          = <<NodeAt(row, col), col * inputs.scale, row * inputs.scale>>
               /\ out[j].data[N + 1] = <<N + 1, ImgW * inputs.scale, ImgH * inputs.scale>>
        /\ \A j \in Where(out, "*Element") :
               /\ Len(out[j].data) = ImgH * ImgW
               /\ \A k \in DOMAIN out[j].data : out[j].data[k][1] = k

\* C5 witness: a 2 x 2 image wrote 10 nodes and 4 elements.
C5_Witness ==
    /\ ImgH = 2 /\ ImgW = 2
    /\ \E j \in Where(out, "*Node") : Len(out[j].data) = 10
    /\ \E j \in Where(out, "*Element") : Len(out[j].data) = 4

\* The node ids of the Model's node set called name.
NodesOf(name) ==
    LET k == CHOOSE k \in DOMAIN sim.model.nsets : sim.model.nsets[k].name = name
    IN  sim.model.nsets[k].node_inds
EdgeNames == {"LeftSurface", "RightSurface", "BotmSurface", "TopSurface"}
CornerNames == {"BotmLeft", "TopLeft", "BotmRight", "TopRight"}
EdgesHolding(n) == {e \in EdgeNames : n \in Range(NodesOf(e))}

SurfaceSizes ==
    /\ Len(NodesOf("LeftSurface")) = ImgH + 1
    /\ Len(NodesOf("RightSurface")) = ImgH + 1
    /\ \A c \in CornerNames : Len(NodesOf(c)) = 1

\* C6 (as stated): Left and Right have H+1 members, every corner set is a
\* singleton, and its node belongs to exactly the two edge sets adjacent to it.
C6_CornersInTwoEdges ==
    Built =>
        /\ SurfaceSizes
        /\ EdgesHolding(NodesOf("BotmLeft")[1]) = {"BotmSurface", "LeftSurface"}
        /\ EdgesHolding(NodesOf("TopLeft")[1]) = {"TopSurface", "LeftSurface"}
        /\ EdgesHolding(NodesOf("BotmRight")[1]) = {"BotmSurface", "RightSurface"}
        /\ EdgesHolding(NodesOf("TopRight")[1]) = {"TopSurface", "RightSurface"}

\* C6 (amended): Left and Right have H+1 members, every corner set is a singleton,
\* and its node belongs to exactly one edge set, the Left or Right surface on its
\* side: BotmSurface and TopSurface hold the W-1 interior nodes of their rows only.
C6_CornersInOneEdge ==
    Built =>
        /\ SurfaceSizes
        /\ EdgesHolding(NodesOf("BotmLeft")[1]) = {"LeftSurface"}
        /\ EdgesHolding(NodesOf("TopLeft")[1]) = {"LeftSurface"}
        /\ EdgesHolding(NodesOf("BotmRight")[1]) = {"RightSurface"}
        /\ EdgesHolding(NodesOf("TopRight")[1]) = {"RightSurface"}
        /\ NodesOf("BotmSurface") = [k \in 1 .. ImgW - 1 |-> NodeAt(0, k)]
        /\ NodesOf("TopSurface") = [k \in 1 .. ImgW - 1 |-> NodeAt(ImgH, k)]
        /\ NodesOf("BotmLeft") = <<NodeAt(0, 0)>>
        /\ NodesOf("TopRight") = <<NodeAt(ImgH, ImgW)>>

\* C6 witness: the node sets of a grid with interior bottom and top nodes were
\* built and written.
C6_Witness ==
    /\ Built
    /\ ImgH >= 2 /\ ImgW >= 2
    /\ Cardinality(Where(out, "*Nset")) >= Len(SideNames)

\* C2: PeriodicBoundaryCondition builds the pairs (LeftSurface, RightSurface),
\* (BotmSurface, TopSurface), (BotmRight, TopRight) and two equations per pair, for
\* dof 1 and dof 2; the equation of pair p and dof d is the 3-term drive equation
\* (first +1, second -1, reference node +1) iff p holds the RightSurface set and
\* first_dof <= d <= last_dof, and the 2-term equality equation otherwise.
C2_DriveEquationIffDrivenPairAndDof ==
    Built =>
        \A b \in DOMAIN sim.model.bcs :
            LET bc == sim.model.bcs[b]
                HoldsDriven(p) ==
                    \E k \in DOMAIN bc.node_pairs[p] :
                        bc.node_pairs[p][k].name = "RightSurface"
            IN  bc.class = "PeriodicBoundaryCondition" =>
                /\ [p \in DOMAIN bc.node_pairs |->
                       [k \in DOMAIN bc.node_pairs[p] |-> bc.node_pairs[p][k].name]]
                     = <<<<"LeftSurface", "RightSurface">>, <<"BotmSurface", "TopSurface">>,
                         <<"BotmRight", "TopRight">>>>
                /\ DOMAIN bc.eq_pairs = 1 .. 3
                /\ \A p \in 1 .. 3 :
                       /\ DOMAIN bc.eq_pairs[p] = 1 .. 2
                       /\ \A d \in 1 .. 2 :
                              LET eq == bc.eq_pairs[p][d]
                                  first == bc.node_pairs[p][1].name
                                  second == bc.node_pairs[p][2].name
                                  lines == Equation_to_inp(eq)[1].data
                              IN  /\ eq.dof = d
                                  /\ IF HoldsDriven(p) /\ bc.first_dof <= d /\ d <= bc.last_dof
                                     THEN /\ eq.class = "DriveEquation"
                                          /\ lines = <<3, <<first, d, 1>>, <<second, d, -1>>,
                                                          <<bc.nset, d, 1>>>>
                                     ELSE /\ eq.class = "EqualityEquation"
                                          /\ lines = <<2, <<first, d, 1>>, <<second, d, -1>>>>

\* C2 witness: a periodic condition driving both dofs was built and written.
C2_Witness ==
    /\ Built
    /\ inputs.first_dof = 1 /\ inputs.last_dof = 2
    /\ Cardinality(Where(out, "*Equation")) = 6

Tags(t) == [j \in DOMAIN t |-> <<t[j].kw, t[j].name>>]
IsPrefix(a, b) == Len(a) <= Len(b) /\ \A j \in DOMAIN a : a[j] = b[j]

\* The keyword and name of every section of the deck of Simulation s, in the
\* order C7 states.
DeckOrder(s) ==
    LET materialTags(m) ==
            LET c == ToString(m.elset.matl_code)
            IN  <<<<"*Elset", c>>, <<"*Solid Section", c>>, <<"*Material", c>>>>
                \o (IF m.class = "ViscoelasticMaterial"
                    THEN <<<<"*Viscoelastic", c>>>> ELSE <<>>)
        pairTags(bc, p) ==
            <<<<"*Nset", bc.node_pairs[p][1].name>>, <<"*Nset", bc.node_pairs[p][2].name>>,
              <<"*Equation", "1">>, <<"*Equation", "2">>>>
        bcTags(bc) ==
            IF bc.class = "PeriodicBoundaryCondition"
            THEN Concat([p \in DOMAIN bc.node_pairs |-> pairTags(bc, p)])
                 \o <<<<"*Boundary", "">>>>
            ELSE <<<<"*Boundary", "">>>>
        stepTags(st) ==
            <<<<"*STEP", IF st.perturbation THEN "PERTURBATION" ELSE "">>>>
            \o [j \in DOMAIN st.subsections |->
                   IF st.subsections[j].class = "Static"
                   THEN <<"*STATIC", IF st.subsections[j].long_term THEN "LONG TERM" ELSE "">>
                   ELSE <<"*STEADY STATE DYNAMICS", "DIRECT">>]
            \o <<<<"*END STEP", "">>>>
    IN  [j \in DOMAIN s.heading |-> <<"*Heading", "">>]
        \o <<<<"*Node", "">>>>
        \o [j \in DOMAIN s.model.nsets |-> <<"*Nset", s.model.nsets[j].name>>]
        \o <<<<"*Element", s.model.elements.type>>>>
        \o Concat([j \in DOMAIN s.model.materials |-> materialTags(s.model.materials[j])])
        \o Concat([j \in DOMAIN s.model.bcs |-> bcTags(s.model.bcs[j])])
        \o Concat([j \in DOMAIN s.steps |-> stepTags(s.steps[j])])

\* C7: Simulation.to_inp writes heading (when present), nodes, node sets, elements,
\* each material (element set, section, property block), each boundary condition
\* (a periodic one: per pair its two node sets and two equations, then the
\* displacement condition) and each step, in that order: what is written is always
\* a prefix of that order, and a completed file is the whole of it.
C7_SectionsInFixedOrder ==
    Built =>
        /\ IsPrefix(Tags(out), DeckOrder(sim))
        /\ \A f \in Range(files) : Tags(f) = DeckOrder(sim)

\* C7 witness: a deck with a heading, three materials, two boundary conditions
\* and two steps was completed.
C7_Witness ==
    /\ Built
    /\ Len(files) >= 1
    /\ Len(sim.heading) = 1
    /\ Len(sim.model.materials) = 3
    /\ Len(sim.model.bcs) = 2
    /\ Len(sim.steps) = 2

====
